---------------------------- MODULE Spec2Model ----------------------------
(***************************************************************************)
(* Model of napari_metadata/_reader.py: the reader function returned by    *)
(* transform (one pass over the nodes of an OME-Zarr dataset) and the pure *)
(* helpers it calls: transform_properties, transform_scale, get_axes,      *)
(* get_axis and make_extras.                                               *)
(*                                                                         *)
(* Python values are modelled by records of one shape per kind, so that    *)
(* any two values of the same field can be compared:                       *)
(*   - an atom is [t, v]: a str, a bool, a colormap specification or a     *)
(*     Colormap object;                                                    *)
(*   - a display field is [kind, s, l, refs]: absent, a scalar atom, a     *)
(*     list of atoms, a dict (one object reference) or a list of dicts;    *)
(*   - mutable dict objects of the `metadata` display field live in heap   *)
(*     and are named by reference, so that two names of one object share   *)
(*     every write.                                                        *)
(* Indices are Python's (0-based); sequences are indexed with i + 1.       *)
(***************************************************************************)
EXTENDS Integers, Sequences, FiniteSets, TLC

VARIABLES
    nodes,      \* the nodes the iterator yields, with their live metadata
    orig,       \* the nodes as they were before the run
    heap,       \* dict objects of the `metadata` display field, by reference
    pos,        \* number of nodes the for loop has consumed
    results,    \* the list `results` of f
    status,     \* "running", "returned" or "raised"
    exc,        \* the statement that raised, "" when none did
    arg,        \* argument of the helper under test
    ret         \* what the helper returned

vars == <<nodes, orig, heap, pos, results, status, exc, arg, ret>>

-----------------------------------------------------------------------------
(* Bounds *)

MaxNodes == 2
MaxChannels == 2
PlaneDim == 3
MaxLevels == 2
MaxAxes == 3
MaxVal == 2
MaxTransforms == 2
MaxLabels == 2

-----------------------------------------------------------------------------
(* Python values *)

Max(a, b) == IF a >= b THEN a ELSE b

\* dict.get / `in`: an optional entry of a mapping
Some(x) == [has |-> TRUE, v |-> x]
NoStr == [has |-> FALSE, v |-> ""]
NoInt == [has |-> FALSE, v |-> 0]
NoSeq == [has |-> FALSE, v |-> <<>>]

\* list.pop(i) is defined for 0 <= i < len(list)
CanPop(l, i) == i < Len(l)

\* A mutant of Pop: pop() without its index removes the last entry
PopLast(l, i) == SubSeq(l, 1, Len(l) - 1)

\* l after l.pop(i)
Pop(l, i) == [k \in 1..(Len(l) - 1) |-> IF k <= i THEN l[k] ELSE l[k + 1]]

RECURSIVE Repeat(_, _)
Repeat(x, n) == IF n <= 0 THEN <<>> ELSE <<x>> \o Repeat(x, n - 1)

Range(f) == {f[x] : x \in DOMAIN f}


-----------------------------------------------------------------------------
(* transform_properties *)

PropNames == {"roiId", "shapeId", "index"}
PropVals == {10, 11}

\* One label's property mapping: a dict from some property names to values
PropDicts == UNION {[S -> PropVals] : S \in SUBSET PropNames}

\* props_dict.get(key, None)
PropGet(d, key) == IF key \in DOMAIN d THEN Some(d[key]) ELSE NoInt

\* First loop: properties[key] = [] for every key of every label
RECURSIVE CreateLists(_, _)
CreateLists(props, i) ==
    IF i > Len(props) THEN {}
    ELSE DOMAIN props[i].d \cup CreateLists(props, i + 1)

\* Second loop, from entry i on: append the label id to properties["index"],
\* then, for every key of `keys`, append props_dict.get(key, None)
RECURSIVE FillLists(_, _, _, _)
FillLists(props, i, keys, properties) ==
    IF i > Len(props) THEN properties
    ELSE LET withId == [properties EXCEPT
                            !["index"] = Append(@, Some(props[i].id))]
             filled == [k \in DOMAIN withId |->
                            IF k \in keys
                            THEN Append(withId[k], PropGet(props[i].d, k))
                            ELSE withId[k]]
         IN  FillLists(props, i + 1, keys, filled)

\* props: None, or the (label_id, props_dict) items of the dict in iteration order
transform_properties(props) ==
    IF ~props.has THEN [has |-> FALSE, v |-> <<>>]
    ELSE LET keys == CreateLists(props.v, 1)
             properties == [k \in keys \cup {"index"} |-> <<>>]
         IN  Some(FillLists(props.v, 1, keys, properties))

-----------------------------------------------------------------------------
(* Unit registries (_space_units.py, _time_units.py) and axes (_model.py) *)

SpaceUnitNames == {"none", "micrometer", "nanometer"}
TimeUnitNames == {"none", "second"}

SpaceUnits_from_name(name) == IF name \in SpaceUnitNames THEN name ELSE "none"
TimeUnits_from_name(name) == IF name \in TimeUnitNames THEN name ELSE "none"

SpaceAxis(name, unit) == [kind |-> "space", name |-> name, unit |-> unit]
TimeAxis(name, unit) == [kind |-> "time", name |-> name, unit |-> unit]

\* str(axis.unit)
get_unit_name(axis) == axis.unit

-----------------------------------------------------------------------------
(* get_axis, get_axes *)

OptGet(opt, default) == IF opt.has THEN opt.v ELSE default

NoAxis == [kind |-> "none", name |-> "", unit |-> "none"]

\* A mutant of get_axis: the `elif axis_type != "channel"` test is lost, so a
\* channel descriptor becomes a SpaceAxis
get_axis_keeps_channel(axis) ==
    IF ~axis.name.has THEN [exc |-> TRUE, axis |-> NoAxis]
    ELSE LET name == axis.name.v
             unit == OptGet(axis.unit, "none")
         IN  IF axis.type = Some("time")
             THEN [exc |-> FALSE, axis |-> TimeAxis(name, TimeUnits_from_name(unit))]
             ELSE [exc |-> FALSE, axis |-> SpaceAxis(name, SpaceUnits_from_name(unit))]

\* axis["name"] raises KeyError without a name; the result is None (NoAxis)
\* for a channel descriptor
get_axis(axis) ==
    IF ~axis.name.has THEN [exc |-> TRUE, axis |-> NoAxis]
    ELSE LET name == axis.name.v
             unit == OptGet(axis.unit, "none")
         IN  IF axis.type = Some("time")
             THEN [exc |-> FALSE, axis |-> TimeAxis(name, TimeUnits_from_name(unit))]
             ELSE IF axis.type # Some("channel")
             THEN [exc |-> FALSE, axis |-> SpaceAxis(name, SpaceUnits_from_name(unit))]
             ELSE [exc |-> FALSE, axis |-> NoAxis]

\* The for loop of get_axes from descriptor i on, `axes` being the list so far
RECURSIVE CollectAxes(_, _, _)
CollectAxes(descs, i, axes) ==
    IF i > Len(descs) THEN [exc |-> FALSE, axes |-> axes]
    ELSE LET r == get_axis(descs[i])
         IN  IF r.exc THEN [exc |-> TRUE, axes |-> axes]
             ELSE IF r.axis # NoAxis
             THEN CollectAxes(descs, i + 1, Append(axes, r.axis))
             ELSE CollectAxes(descs, i + 1, axes)

\* descs: metadata["axes"], an optional list of descriptors
get_axes(descs) ==
    IF ~descs.has THEN [exc |-> TRUE, axes |-> <<>>]
    ELSE LET r == CollectAxes(descs.v, 1, <<>>)
             space_units == {get_unit_name(r.axes[k]) :
                                k \in {j \in DOMAIN r.axes : r.axes[j].kind = "space"}}
         IN  IF r.exc THEN r
             ELSE IF Cardinality(space_units) > 1
             THEN [exc |-> FALSE,
                   axes |-> [k \in DOMAIN r.axes |->
                                IF r.axes[k].kind = "space"
                                THEN [r.axes[k] EXCEPT !.unit = "none"]
                                ELSE r.axes[k]]]
             ELSE r

-----------------------------------------------------------------------------
(* transform_scale *)

\* One transform of the loop: pop the channel entry of transf["scale"] and of
\* transf["translation"] in place and store their tuples in metadata
ScaleStep(transf, channel_axis, acc) ==
    LET popS == transf.scale.has /\ channel_axis.has
        failS == popS /\ ~CanPop(transf.scale.v, channel_axis.v)
        scale == IF popS /\ ~failS
                 THEN Some(Pop(transf.scale.v, channel_axis.v))
                 ELSE transf.scale
        popT == transf.translation.has /\ channel_axis.has
        failT == popT /\ ~CanPop(transf.translation.v, channel_axis.v)
        translate == IF popT /\ ~failT
                     THEN Some(Pop(transf.translation.v, channel_axis.v))
                     ELSE transf.translation
    IN  IF failS
        THEN [acc EXCEPT !.exc = TRUE, !.level = Append(@, transf)]
        ELSE IF failT
        THEN [acc EXCEPT !.exc = TRUE,
                         !.level = Append(@, [transf EXCEPT !.scale = scale]),
                         !.scale = IF transf.scale.has THEN scale ELSE @]
        ELSE [acc EXCEPT !.level = Append(@, [scale |-> scale,
                                              translation |-> translate]),
                         !.scale = IF transf.scale.has THEN scale ELSE @,
                         !.translate = IF transf.translation.has
                                       THEN translate ELSE @]

\* `for transf in level_0_transforms`, from transform i on
RECURSIVE ScaleLoop(_, _, _, _)
ScaleLoop(level, i, channel_axis, acc) ==
    IF i > Len(level) THEN acc
    ELSE LET next == ScaleStep(level[i], channel_axis, acc)
         IN  IF next.exc
             THEN [next EXCEPT !.level = @ \o SubSeq(level, i + 1, Len(level))]
             ELSE ScaleLoop(level, i + 1, channel_axis, next)

\* ct: node_metadata.get("coordinateTransformations"). Returns the list as the
\* call leaves it (ct), and the scale and translate entries written to metadata
transform_scale(ct, channel_axis) ==
    IF ~ct.has
    THEN [exc |-> FALSE, ct |-> ct, scale |-> NoSeq, translate |-> NoSeq]
    ELSE LET r == ScaleLoop(ct.v[1], 1, channel_axis,
                            [exc |-> FALSE, level |-> <<>>,
                             scale |-> NoSeq, translate |-> NoSeq])
         IN  [exc |-> r.exc,
              ct |-> Some([ct.v EXCEPT ![1] = r.level]),
              scale |-> r.scale,
              translate |-> r.translate]

-----------------------------------------------------------------------------
(* Display fields *)

METADATA_KEYS == {"name", "visible", "contrast_limits", "colormap", "color",
                  "metadata"}

NoAtom == [t |-> "none", v |-> ""]
StrAtom(x) == [t |-> "str", v |-> x]
BoolAtom(x) == [t |-> "bool", v |-> x]
SpecAtom(x) == [t |-> "spec", v |-> x]

\* vispy's Colormap(cm), and isinstance(cm, Colormap)
Colormap(cm) == [t |-> "Colormap", v |-> cm.v]
IsColormap(cm) == cm.t = "Colormap"

Absent == [kind |-> "absent", s |-> NoAtom, l |-> <<>>, refs |-> <<>>]
Scalar(a) == [kind |-> "scalar", s |-> a, l |-> <<>>, refs |-> <<>>]
List(l) == [kind |-> "list", s |-> NoAtom, l |-> l, refs |-> <<>>]
Dict(ref) == [kind |-> "dict", s |-> NoAtom, l |-> <<>>, refs |-> <<ref>>]
DictList(refs) == [kind |-> "dictlist", s |-> NoAtom, l |-> <<>>, refs |-> refs]

IsList(v) == v.kind \in {"list", "dictlist"}
IsStr(v) == v.kind = "scalar" /\ v.s.t = "str"

\* bool(name) for the values a name takes: None, a str or a list
Truthy(v) ==
    CASE v.kind = "absent" -> FALSE
      [] v.kind = "scalar" -> v.s.v # ""
      [] v.kind = "list" -> Len(v.l) > 0
      [] v.kind = "dictlist" -> Len(v.refs) > 0
      [] OTHER -> TRUE

\* node.metadata[x][0] inside try/except: Absent when the indexing raises
\* (IndexError on an empty list or str, TypeError on a bool, KeyError on a
\* dict). Strings are single characters, so the first character of a
\* non-empty str is the str itself.
Index0(v) ==
    CASE v.kind = "list" /\ Len(v.l) > 0 -> Scalar(v.l[1])
      [] v.kind = "dictlist" /\ Len(v.refs) > 0 -> Dict(v.refs[1])
      [] IsStr(v) /\ v.s.v # "" -> v
      [] OTHER -> Absent

-----------------------------------------------------------------------------
(* ExtraMetadata, OriginalMetadata and make_extras *)

NoExtra == [has |-> FALSE,
            v |-> [axes |-> <<>>,
                   original |-> [axes |-> <<>>, name |-> Absent,
                                 scale |-> NoSeq, translate |-> NoSeq]]]

\* metadata: the display metadata built so far; axes and both deep copies of
\* it are values, so the three lists are independent
make_extras(metadata, axes, name) ==
    [axes |-> axes,
     original |-> [axes |-> axes, name |-> name,
                   scale |-> metadata.scale, translate |-> metadata.translate]]

\* A dict object of the `metadata` display field: its own keys and what it
\* holds under EXTRA_METADATA_KEY
EmptyDict == [keys |-> {}, extra |-> NoExtra]

\* m[EXTRA_METADATA_KEY] = extras, for the dict object m at ref
SetExtra(h, ref, extras) == [h EXCEPT ![ref].extra = Some(extras)]

\* References: <<i, k>> is the k-th dict of node i's `metadata` field, and
\* <<i, 0>> the dict the run creates for node i
NewRef(i) == <<i, 0>>

-----------------------------------------------------------------------------
(* The body of the for loop of f, for one node with data *)

\* ch_types = [axis["type"] for axis in node.metadata["axes"]] raises KeyError
\* when there is no axes list or a descriptor has no type
AxesUnreadable(md) ==
    \/ ~md.axes.has
    \/ \E k \in DOMAIN md.axes.v : ~md.axes.v[k].type.has

\* ch_types.index("channel") when "channel" in ch_types, else None
ChannelAxis(md) ==
    LET chans == {k \in DOMAIN md.axes.v : md.axes.v[k].type.v = "channel"}
    IN  IF chans = {} THEN NoInt
        ELSE Some((CHOOSE k \in chans : \A j \in chans : k <= j) - 1)

\* if isinstance(data, list) and len(data) == 1: data = data[0]
SqueezeSingleLevel(data) ==
    IF data.kind = "list" /\ Len(data.levels) = 1
    THEN [data EXCEPT !.kind = "array"]
    ELSE data

\* A mutant of WrapName: the `channel_axis is None` test is lost
WrapNameAlways(name, channel_axis) ==
    IF Truthy(name) /\ IsStr(name)
    THEN List(<<name.s>>)
    ELSE name

\* if name := node.metadata.get("name"):
\*     if channel_axis is None and isinstance(name, str): ... = [name]
WrapName(name, channel_axis) ==
    IF Truthy(name) /\ ~channel_axis.has /\ IsStr(name)
    THEN List(<<name.s>>)
    ELSE name

\* np.squeeze(level, axis=channel_axis) raises ValueError unless the axis has
\* size 1 (and an AxisError when the level has no such axis)
CanSqueeze(shape, axis) == axis < Len(shape) /\ shape[axis + 1] = 1
SqueezeLevels(levels, axis) == [k \in DOMAIN levels |-> Pop(levels[k], axis)]

\* for idx, cm in enumerate(cms): if not isinstance(cm, Colormap): cms[idx] = ...
ColormapShim(cms) ==
    IF cms.kind = "list"
    THEN List([k \in DOMAIN cms.l |->
                 IF IsColormap(cms.l[k]) THEN cms.l[k] ELSE Colormap(cms.l[k])])
    ELSE cms

\* (data[0] if isinstance(data, list) else data).shape
ShapeOf(data) == data.levels[1]

\* for n, m in zip(name, metadata["metadata"]): m[KEY] = make_extras(...),
\* from pair k on; names is a list of names (None is Absent)
RECURSIVE AttachExtras(_, _, _, _, _, _)
AttachExtras(h, names, refs, k, metadata, axes) ==
    IF k > Len(names) \/ k > Len(refs) THEN h
    ELSE AttachExtras(SetExtra(h, refs[k], make_extras(metadata, axes, names[k])),
                      names, refs, k + 1, metadata, axes)

\* [deepcopy(meta)] * n_channels: one new dict, named n_channels times
BroadcastMeta(i, n_channels) == Repeat(NewRef(i), n_channels)

NoProps == [has |-> FALSE, v |-> <<>>]

Outcome(e, md, h, rv) == [exc |-> e, metadata |-> md, heap |-> h, rv |-> rv]

NoRv == [data |-> [id |-> 0, kind |-> "none", levels |-> <<>>],
         metadata |-> [disp |-> [x \in METADATA_KEYS |-> Absent],
                       channel_axis |-> NoInt, scale |-> NoSeq,
                       translate |-> NoSeq, properties |-> NoProps],
         layer_type |-> "image"]

\* Lines 224-252: the axes and the extra metadata. md is node.metadata as the
\* branches above left it, metadata and data are the locals of f
BuildExtras(i, md, h, data, metadata, channel_axis, layer_type) ==
    LET axes == get_axes(md.axes)
        meta == metadata.disp["metadata"]
    IN  IF axes.exc THEN Outcome("get_axis", md, h, NoRv)
        ELSE IF ~channel_axis.has
        THEN LET fresh == meta.kind = "absent"
                 h1 == IF fresh THEN h @@ (NewRef(i) :> EmptyDict) ELSE h
                 m1 == IF fresh
                       THEN [metadata EXCEPT !.disp["metadata"] = Dict(NewRef(i))]
                       ELSE metadata
                 name == m1.disp["name"]
             IN  \* item assignment on a list of dicts raises TypeError
                 IF m1.disp["metadata"].kind # "dict"
                 THEN Outcome("setitem", md, h1, NoRv)
                 ELSE Outcome("", md,
                              SetExtra(h1, m1.disp["metadata"].refs[1],
                                       make_extras(m1, axes.axes, name)),
                              [data |-> data, metadata |-> m1,
                               layer_type |-> layer_type])
        ELSE IF channel_axis.v >= Len(ShapeOf(data))
        THEN \* .shape[channel_axis] raises IndexError
             Outcome("shape", md, h, NoRv)
        ELSE LET n_channels == ShapeOf(data)[channel_axis.v + 1]
                 copy == IF meta.kind = "dict" THEN h[meta.refs[1]] ELSE EmptyDict
                 broadcast == ~IsList(meta)
                 h1 == IF broadcast /\ n_channels > 0
                       THEN h @@ [r \in Range(BroadcastMeta(i, n_channels)) |-> copy]
                       ELSE h
                 m1 == IF broadcast
                       THEN [metadata EXCEPT !.disp["metadata"] =
                                DictList(BroadcastMeta(i, n_channels))]
                       ELSE metadata
                 name == m1.disp["name"]
                 names == IF name.kind = "list"
                          THEN [k \in DOMAIN name.l |-> Scalar(name.l[k])]
                          ELSE Repeat(name, n_channels)
             IN  Outcome("", md,
                         AttachExtras(h1, names, m1.disp["metadata"].refs, 1,
                                      m1, axes.axes),
                         [data |-> data, metadata |-> m1,
                          layer_type |-> layer_type])

\* Lines 183-199: the node is a label image
LabelBranch(i, node, md, h, data, metadata, channel_axis) ==
    LET m1 == [metadata EXCEPT !.disp = md.disp]
        bad == channel_axis.has /\
               \E k \in DOMAIN node.data.levels :
                   ~CanSqueeze(node.data.levels[k], channel_axis.v)
        data1 == IF channel_axis.has
                 THEN [data EXCEPT !.kind = "list",
                           !.levels = SqueezeLevels(node.data.levels, channel_axis.v)]
                 ELSE data
        properties == transform_properties(md.properties)
        m2 == IF properties.has THEN [m1 EXCEPT !.properties = properties] ELSE m1
    IN  IF bad THEN Outcome("squeeze", md, h, NoRv)
        ELSE BuildExtras(i, md, h, data1, m2, channel_axis, "labels")

\* Lines 201-222: the node is an image
ImageBranch(i, md, h, data, metadata, channel_axis) ==
    LET md1 == [md EXCEPT !.disp["colormap"] = ColormapShim(@)]
        m1 == IF channel_axis.has
              THEN [metadata EXCEPT !.channel_axis = channel_axis,
                                    !.disp = md1.disp]
              ELSE [metadata EXCEPT !.disp =
                        [x \in METADATA_KEYS |-> Index0(md1.disp[x])]]
    IN  BuildExtras(i, md1, h, data, m1, channel_axis, "image")

\* Lines 159-256 for node i: the statement that raised ("" when none did:
\* "ch_types" is the channel-axis detection, "pop" list.pop, "squeeze"
\* np.squeeze, "get_axis" axis["name"], "setitem" the item assignment on
\* metadata["metadata"], "shape" .shape[channel_axis]), node.metadata and the
\* heap as the body leaves them, and the tuple appended to results
ProcessNode(i, node, h) ==
    LET md == node.metadata
    IN  IF AxesUnreadable(md) THEN Outcome("ch_types", md, h, NoRv)
        ELSE
        LET channel_axis == ChannelAxis(md)
            ts == transform_scale(md.coordinateTransformations, channel_axis)
            md1 == [md EXCEPT !.coordinateTransformations = ts.ct]
            metadata == [NoRv.metadata EXCEPT !.scale = ts.scale,
                                              !.translate = ts.translate]
            data == SqueezeSingleLevel(node.data)
            md2 == [md1 EXCEPT !.disp["name"] = WrapName(@, channel_axis)]
        IN  IF ts.exc THEN Outcome("pop", md1, h, NoRv)
            ELSE IF node.isLabel
            THEN LabelBranch(i, node, md2, h, data, metadata, channel_axis)
            ELSE ImageBranch(i, md2, h, data, metadata, channel_axis)

-----------------------------------------------------------------------------
(* Inputs: the nodes the dataset-access collaborator may yield *)

Desc(name, type, unit) == [name |-> name, type |-> type, unit |-> unit]

AxesYX == Some(<<Desc(Some("y"), Some("space"), Some("micrometer")),
                 Desc(Some("x"), Some("space"), Some("micrometer"))>>)
AxesCYX == Some(<<Desc(Some("c"), Some("channel"), NoStr),
                  Desc(Some("y"), Some("space"), Some("micrometer")),
                  Desc(Some("x"), Some("space"), Some("micrometer"))>>)
AxesYXC == Some(<<Desc(Some("y"), Some("space"), Some("micrometer")),
                  Desc(Some("x"), Some("space"), Some("micrometer")),
                  Desc(Some("c"), Some("channel"), NoStr)>>)
AxesTCY == Some(<<Desc(Some("t"), Some("time"), Some("second")),
                  Desc(Some("c"), Some("channel"), NoStr),
                  Desc(Some("y"), Some("space"), Some("nanometer"))>>)
AxesMixed == Some(<<Desc(Some("z"), Some("space"), Some("micrometer")),
                    Desc(Some("y"), Some("space"), Some("nanometer")),
                    Desc(Some("x"), Some("space"), NoStr)>>)
\* descriptors with every required field, but an optional one left out
AxesNoType == Some(<<Desc(Some("y"), NoStr, NoStr),
                     Desc(Some("x"), Some("space"), Some("micrometer"))>>)
\* malformed schemas: a descriptor without name, no axes list
AxesNoName == Some(<<Desc(NoStr, Some("space"), Some("micrometer")),
                     Desc(Some("x"), Some("space"), Some("micrometer"))>>)
AxesNone == NoSeq

WellFormedAxes == {AxesYX, AxesCYX, AxesYXC, AxesTCY, AxesMixed}
AxesChoices == WellFormedAxes \cup {AxesNoType, AxesNoName, AxesNone}

HasChannel(axes) ==
    axes.has /\ \E k \in DOMAIN axes.v : axes.v[k].type = Some("channel")

\* The shape of every pyramid level: nch along a channel axis, PlaneDim along
\* the others
ShapeFor(axes, nch) ==
    IF axes.has
    THEN [k \in DOMAIN axes.v |->
             IF axes.v[k].type = Some("channel") THEN nch ELSE PlaneDim]
    ELSE <<PlaneDim, PlaneDim>>

ChannelNames == <<"a", "b", "c", "d">>

\* coordinateTransformations: one list of transforms per level
TransformsFor(ct, rank, levels) ==
    LET scale == Some([k \in 1..rank |-> k])
        translation == Some([k \in 1..rank |-> k + rank])
    IN  CASE ct = "absent" -> NoSeq
          [] ct = "scale" ->
                Some(Repeat(<<[scale |-> scale, translation |-> NoSeq]>>, levels))
          [] ct = "both" ->
                Some(Repeat(<<[scale |-> scale, translation |-> NoSeq],
                              [scale |-> NoSeq, translation |-> translation]>>,
                            levels))

SomeProps == Some(<<[id |-> 1, d |-> [k \in {"roiId"} |-> 10]],
                    [id |-> 2, d |-> [k \in {"roiId", "shapeId"} |-> 11]]>>)

\* Node i of the sequence, from its parameters p
NodeOf(i, p) ==
    LET shape == ShapeFor(p.axes, p.nch)
        n == IF HasChannel(p.axes) THEN p.nch ELSE 1
        lv == Max(p.levels, 1)
        name == CASE p.name = "absent" -> Absent
                  [] p.name = "empty" -> Scalar(StrAtom(""))
                  [] p.name = "str" -> Scalar(StrAtom("n"))
                  [] p.name = "list" ->
                        List([k \in 1..n |-> StrAtom(ChannelNames[k])])
        meta == CASE p.meta = "absent" -> Absent
                  [] p.meta = "dict" -> Dict(<<i, 1>>)
                  [] p.meta = "list" -> DictList([k \in 1..n |-> <<i, k>>])
        visible == CASE p.visible = "absent" -> Absent
                     [] p.visible = "bool" -> Scalar(BoolAtom("True"))
                     [] p.visible = "list" ->
                           List([k \in 1..n |-> BoolAtom("True")])
        colormap == IF p.colormap = "absent" THEN Absent
                    ELSE List([k \in 1..n |-> SpecAtom(ChannelNames[k])])
    IN  [data |-> [id |-> i, kind |-> p.data,
                   levels |-> Repeat(shape, p.levels)],
         isLabel |-> p.isLabel,
         metadata |->
            [axes |-> p.axes,
             coordinateTransformations |-> TransformsFor(p.ct, Len(shape), lv),
             properties |-> IF p.properties THEN SomeProps ELSE NoProps,
             disp |-> [x \in METADATA_KEYS |->
                          CASE x = "name" -> name
                            [] x = "metadata" -> meta
                            [] x = "visible" -> visible
                            [] x = "colormap" -> colormap
                            [] OTHER -> Absent]]]

Params(data, levels, isLabel, axes, nch, name, meta, ct, visible, colormap, properties) ==
    [data |-> data, levels |-> levels, isLabel |-> isLabel, axes |-> axes,
     nch |-> nch, name |-> name, meta |-> meta, ct |-> ct,
     visible |-> visible, colormap |-> colormap, properties |-> properties]

ChannelSizes(axes) == IF HasChannel(axes) THEN 1..MaxChannels ELSE {1}

\* per-channel dict lists come with channel axes and single-element ones with
\* single-channel images; a label node's `metadata` is a dict
MetaChoices(isLabel) ==
    IF isLabel THEN {"absent", "dict"} ELSE {"absent", "dict", "list"}

\* nodes without data: data is None or an empty list
NoDataParams ==
    {Params(d, 0, FALSE, axes, 1, "str", "absent", "scale", "absent", "absent",
            FALSE) : d \in {"none", "list"}, axes \in {AxesYX, AxesNone}}

\* shapes, kinds, names and `metadata` fields
ShapeParams ==
    UNION {{Params("list", levels, isLabel, axes, nch, name, meta, "both",
                   "absent", "list", isLabel) :
                nch \in ChannelSizes(axes), meta \in MetaChoices(isLabel),
                levels \in 1..MaxLevels,
                name \in {"absent", "empty", "str", "list"}} :
           isLabel \in BOOLEAN, axes \in AxesChoices}

\* optional fields present or not
OptionalParams ==
    {Params("list", 1, isLabel, axes, MaxChannels, "str", "dict", ct, visible,
            colormap, properties) :
        isLabel \in BOOLEAN, axes \in {AxesYX, AxesCYX},
        ct \in {"absent", "scale", "both"},
        visible \in {"absent", "bool", "list"},
        colormap \in {"absent", "list"}, properties \in BOOLEAN}

NodeParams == NoDataParams \cup ShapeParams \cup OptionalParams

\* the nodes that accompany the node under study
FillerParams ==
    {Params("none", 0, FALSE, AxesYX, 1, "str", "absent", "scale", "absent",
            "absent", FALSE),
     Params("list", 0, FALSE, AxesNone, 1, "str", "absent", "scale", "absent",
            "absent", FALSE),
     Params("list", 1, FALSE, AxesYX, 1, "str", "absent", "both", "absent",
            "list", FALSE),
     Params("list", 1, TRUE, AxesYX, 1, "str", "dict", "both", "absent",
            "list", TRUE)}

\* A sequence of n nodes: the one at position r from parameters p, the others
\* from the parameters f gives their positions
NodeSeq(n, r, p, f) ==
    [k \in 1..n |-> IF k = r THEN NodeOf(k, p) ELSE NodeOf(k, f[k])]

\* The dict objects the nodes' `metadata` fields name, before the run
InitHeap(seq) ==
    LET refs == UNION {Range(seq[k].metadata.disp["metadata"].refs) :
                          k \in DOMAIN seq}
    IN  [r \in refs |-> [keys |-> {"path"}, extra |-> NoExtra]]

-----------------------------------------------------------------------------
(* The reader function f returned by transform *)

Idle == arg = <<>> /\ ret = <<>>

\* At most MaxNodes nodes: one from NodeParams, at any position, the others
\* from FillerParams
Init ==
    /\ \E n \in 0..MaxNodes :
         \E r \in {k \in 0..n : (k = 0) = (n = 0)}, p \in NodeParams :
            \E f \in [(1..n) \ {r} -> FillerParams] :
                nodes = NodeSeq(n, r, p, f)
    /\ orig = nodes
    /\ heap = InitHeap(nodes)
    /\ pos = 0
    /\ results = <<>>
    /\ status = "running"
    /\ exc = ""
    /\ Idle

HasData(node) == ~(node.data.kind = "none" \/ Len(node.data.levels) < 1)

\* if data is None or len(data) < 1: LOGGER.debug("skipping non-data ...")
Skip ==
    /\ status = "running"
    /\ pos < Len(nodes)
    /\ ~HasData(nodes[pos + 1])
    /\ pos' = pos + 1
    /\ UNCHANGED <<nodes, orig, heap, results, status, exc, arg, ret>>

\* The else branch ran to results.append(rv)
Transform ==
    /\ status = "running"
    /\ pos < Len(nodes)
    /\ HasData(nodes[pos + 1])
    /\ LET out == ProcessNode(pos + 1, nodes[pos + 1], heap)
       IN  /\ out.exc = ""
           /\ nodes' = [nodes EXCEPT ![pos + 1].metadata = out.metadata]
           /\ heap' = out.heap
           /\ results' = Append(results, out.rv)
    /\ pos' = pos + 1
    /\ UNCHANGED <<orig, status, exc, arg, ret>>

\* An exception left the else branch, and f with it
Raise ==
    /\ status = "running"
    /\ pos < Len(nodes)
    /\ HasData(nodes[pos + 1])
    /\ LET out == ProcessNode(pos + 1, nodes[pos + 1], heap)
       IN  /\ out.exc # ""
           /\ exc' = out.exc
           /\ nodes' = [nodes EXCEPT ![pos + 1].metadata = out.metadata]
           /\ heap' = out.heap
    /\ status' = "raised"
    /\ pos' = pos + 1
    /\ UNCHANGED <<orig, results, arg, ret>>

\* The iterator is exhausted: return results
Return ==
    /\ status = "running"
    /\ pos = Len(nodes)
    /\ status' = "returned"
    /\ UNCHANGED <<nodes, orig, heap, pos, results, exc, arg, ret>>

Next == Skip \/ Transform \/ Raise \/ Return

Spec == Init /\ [][Next]_vars

-----------------------------------------------------------------------------
(* The helpers on their own: one call each, on inputs drawn from bounded sets *)

NoRun ==
    /\ nodes = <<>>
    /\ orig = <<>>
    /\ heap = <<>>
    /\ pos = 0
    /\ results = <<>>
    /\ status = "running"
    /\ exc = ""
    /\ ret = <<>>

Call(result, raised) ==
    /\ status = "running"
    /\ ret' = result
    /\ status' = IF raised THEN "raised" ELSE "returned"
    /\ UNCHANGED <<nodes, orig, heap, pos, results, exc, arg>>

\* props: None, or at most MaxLabels labels, in any order, each with a
\* property mapping
InitProperties ==
    /\ NoRun
    /\ \/ arg = NoProps
       \/ \E n \in 0..MaxLabels :
            \E ids \in [1..n -> 1..MaxLabels], ds \in [1..n -> PropDicts] :
                /\ \A j, k \in 1..n : ids[j] = ids[k] => j = k
                /\ arg = Some([k \in 1..n |-> [id |-> ids[k], d |-> ds[k]]])

CallTransformProperties == Call(transform_properties(arg), FALSE)

SpecProperties == InitProperties /\ [][CallTransformProperties]_vars

AxisNames == <<"t", "c", "z", "y", "x">>
TypeChoices == {NoStr, Some("space"), Some("time"), Some("channel")}
UnitChoices == {NoStr, Some("micrometer"), Some("nanometer"), Some("second")}

\* at most MaxAxes descriptors, each with a name
InitAxes ==
    /\ NoRun
    /\ \E n \in 0..MaxAxes :
         \E types \in [1..n -> TypeChoices], units \in [1..n -> UnitChoices] :
            arg = Some([k \in 1..n |-> Desc(Some(AxisNames[k]), types[k], units[k])])

CallGetAxes == Call(get_axes(arg), get_axes(arg).exc)

SpecAxes == InitAxes /\ [][CallGetAxes]_vars

\* scale and translation arrays with one entry per axis, all entries distinct
Arrays == {[i \in 1..MaxAxes |-> i * k] : k \in 1..MaxVal}
OptArrays == {NoSeq} \cup {Some(a) : a \in Arrays}
Transforms == [scale : OptArrays, translation : OptArrays]
OtherLevel == <<[scale |-> Some([i \in 1..MaxAxes |-> i]), translation |-> NoSeq]>>

\* no coordinateTransformations, or at most MaxLevels levels of which the
\* first has at most MaxTransforms transforms; any channel axis or none
InitScale ==
    /\ NoRun
    /\ \E channel_axis \in {NoInt} \cup {Some(c) : c \in 0..(MaxAxes - 1)} :
         \/ arg = [ct |-> NoSeq, channel_axis |-> channel_axis]
         \/ \E levels \in 1..MaxLevels, n \in 0..MaxTransforms :
              \E level0 \in [1..n -> Transforms] :
                 arg = [ct |-> Some(<<level0>> \o Repeat(OtherLevel, levels - 1)),
                        channel_axis |-> channel_axis]

CallTransformScale ==
    Call(transform_scale(arg.ct, arg.channel_axis),
         transform_scale(arg.ct, arg.channel_axis).exc)

SpecScale == InitScale /\ [][CallTransformScale]_vars

-----------------------------------------------------------------------------
(* Claims about the helpers *)

\* The descriptors of `descs` that are not channel descriptors, in order
NonChannel(descs) == SelectSeq(descs, LAMBDA d : d.type # Some("channel"))

IsTimeDesc(d) == d.type = Some("time")

\* The units the registries resolve the Space descriptors of `descs` to
ResolvedSpaceUnits(descs) ==
    {SpaceUnits_from_name(OptGet(descs[k].unit, "none")) :
        k \in {j \in DOMAIN descs : ~IsTimeDesc(descs[j])}}

\* C4: get_axes returns, without raising, one axis per non-channel descriptor
\* in the original order; when the resolved units of the Space axes differ
\* every Space axis has unit NONE, when they agree each keeps its resolved
\* unit; every Time axis has its resolved time unit.
C4_AxesReconciled ==
    status # "running" =>
        /\ status = "returned"
        /\ ~ret.exc
        /\ LET kept == NonChannel(arg.v)
               mixed == Cardinality(ResolvedSpaceUnits(kept)) > 1
           IN  /\ Len(ret.axes) = Len(kept)
               /\ \A k \in DOMAIN kept :
                    LET d == kept[k]
                        a == ret.axes[k]
                        unit == OptGet(d.unit, "none")
                    IN  /\ a.name = d.name.v
                        /\ a.kind = IF IsTimeDesc(d) THEN "time" ELSE "space"
                        /\ IsTimeDesc(d) => a.unit = TimeUnits_from_name(unit)
                        /\ ~IsTimeDesc(d) /\ mixed => a.unit = "none"
                        /\ ~IsTimeDesc(d) /\ ~mixed =>
                                a.unit = SpaceUnits_from_name(unit)
               /\ Cardinality({ret.axes[k].unit :
                     k \in {j \in DOMAIN ret.axes : ret.axes[j].kind = "space"}}) <= 1

\* get_axes returned for a list with a channel descriptor and two Space
\* descriptors of different units
C4_Witness ==
    /\ status = "returned"
    /\ \E k \in DOMAIN arg.v : arg.v[k].type = Some("channel")
    /\ ResolvedSpaceUnits(NonChannel(arg.v)) = {"micrometer", "nanometer"}
    /\ Len(ret.axes) = Len(arg.v) - 1

\* r is l with the entry at 0-based index i removed
IsRemoved(r, l, i) ==
    /\ Len(r) = Len(l) - 1
    /\ \A k \in DOMAIN r : r[k] = IF k <= i THEN l[k] ELSE l[k + 1]

\* The array the first level gives for `key`: that of its last transform that
\* has one
GivenArray(level, key) ==
    LET with == {k \in DOMAIN level : level[k][key].has}
    IN  IF with = {} THEN NoSeq
        ELSE level[CHOOSE k \in with : \A j \in with : j <= k][key]

StoredAsGiven(stored, given, channel_axis) ==
    IF ~given.has THEN ~stored.has
    ELSE /\ stored.has
         /\ IF channel_axis.has
            THEN /\ IsRemoved(stored.v, given.v, channel_axis.v)
                 /\ Len(stored.v) = MaxAxes - 1
            ELSE stored.v = given.v

\* C5: transform_scale never raises; without coordinateTransformations it
\* stores nothing; otherwise it reads the first level only, and the stored
\* scale (translate) is the level's scale (translation) array without the
\* entry at the channel axis index, or the whole array when there is no channel
\* axis, and is absent when the level has no such array.
C5_ScaleExtracted ==
    status # "running" =>
        /\ status = "returned"
        /\ IF ~arg.ct.has
           THEN ~ret.scale.has /\ ~ret.translate.has
           ELSE /\ StoredAsGiven(ret.scale, GivenArray(arg.ct.v[1], "scale"),
                                 arg.channel_axis)
                /\ StoredAsGiven(ret.translate,
                                 GivenArray(arg.ct.v[1], "translation"),
                                 arg.channel_axis)
                /\ \A k \in 2..Len(arg.ct.v) : ret.ct.v[k] = arg.ct.v[k]

\* transform_scale returned a scale and a translate for a channel axis in the
\* middle, from a dataset of several levels
C5_Witness ==
    /\ status = "returned"
    /\ arg.ct.has
    /\ Len(arg.ct.v) > 1
    /\ arg.channel_axis = Some(1)
    /\ ret.scale.has
    /\ ret.translate.has
    /\ Len(ret.scale.v) = MaxAxes - 1

\* C6: transform_properties(None) is None; otherwise the result's keys are
\* the union of the labels' property names plus "index", every list in it has
\* one element per label, "index" holds the label identifiers in order, and
\* the list of property k holds each label's value for k, or None.
C6_PropertiesPivoted ==
    status = "returned" =>
        IF ~arg.has THEN ~ret.has
        ELSE LET names == UNION {DOMAIN arg.v[i].d : i \in DOMAIN arg.v}
             IN  /\ ret.has
                 /\ DOMAIN ret.v = names \cup {"index"}
                 /\ \A k \in DOMAIN ret.v : Len(ret.v[k]) = Len(arg.v)
                 /\ \A i \in DOMAIN arg.v :
                        /\ ret.v["index"][i] = Some(arg.v[i].id)
                        /\ \A k \in names \ {"index"} :
                              ret.v[k][i] = PropGet(arg.v[i].d, k)

-----------------------------------------------------------------------------
(* Claims about the reader function *)

\* The node the k-th tuple of results was made from, and what it was before
\* the run
Src(k) == results[k].data.id
RawMeta(k) == orig[Src(k)].metadata
RawName(k) == RawMeta(k).disp["name"]

\* The size of the node's source data along its channel axis
NChannels(k) == orig[Src(k)].data.levels[1][ChannelAxis(RawMeta(k)).v + 1]

\* The dict objects of the k-th tuple's `metadata` display field
MetaRefs(k) == results[k].metadata.disp["metadata"].refs

\* What the dict object at ref holds under the reserved key
ExtraOf(ref) == heap[ref].extra

\* An axis schema is malformed without an axes list or when a descriptor has
\* no name
Malformed(md) ==
    \/ ~md.axes.has
    \/ \E k \in DOMAIN md.axes.v : ~md.axes.v[k].name.has

DataNodes == SelectSeq([i \in DOMAIN orig |-> i], LAMBDA i : HasData(orig[i]))

\* C1: when no node has a malformed axis schema, the run returns a list with
\* exactly one tuple per node that has data, in the order of the nodes; nodes
\* without data add nothing and raise nothing.
C1_OneTuplePerDataNode ==
    (status # "running" /\ \A i \in DOMAIN orig : ~Malformed(orig[i].metadata)) =>
        /\ status = "returned"
        /\ [k \in DOMAIN results |-> Src(k)] = DataNodes

\* Channel j's own name: the j-th entry of a list of names, else the one name
OwnName(k, j) ==
    IF RawName(k).kind = "list" THEN Scalar(RawName(k).l[j]) ELSE RawName(k)

\* C2: for a node with a channel axis of at least two channels whose
\* `metadata` field is absent or one mapping, the emitted per-channel mappings
\* are distinct objects, one per channel, and channel j's mapping holds an
\* ExtraMetadata whose original.name is channel j's own name.
C2_ChannelsIndependent ==
    \A k \in DOMAIN results :
        (/\ ChannelAxis(RawMeta(k)).has
         /\ RawMeta(k).disp["metadata"].kind \in {"absent", "dict"}
         /\ NChannels(k) >= 2) =>
            /\ Len(MetaRefs(k)) = NChannels(k)
            /\ \A a, b \in DOMAIN MetaRefs(k) :
                    a # b => MetaRefs(k)[a] # MetaRefs(k)[b]
            /\ \A j \in DOMAIN MetaRefs(k) :
                    /\ ExtraOf(MetaRefs(k)[j]).has
                    /\ ExtraOf(MetaRefs(k)[j]).v.original.name = OwnName(k, j)

\* C3 as stated: for a node with a channel axis whose raw name is one string,
\* the emitted name is a list of n_channels copies of that string.
C3_NameBroadcast ==
    \A k \in DOMAIN results :
        (ChannelAxis(RawMeta(k)).has /\ IsStr(RawName(k))) =>
            LET name == results[k].metadata.disp["name"]
            IN  /\ name.kind = "list"
                /\ Len(name.l) = NChannels(k)
                /\ \A j \in DOMAIN name.l : name.l[j] = RawName(k).s

\* C3 as amended: for a node with a channel axis whose raw name is one string,
\* the emitted name is that string itself, not a list; the string is repeated
\* only as the name of the ExtraMetadata instances attached for the node, each
\* of which has original.name equal to it.
C3_NameKeptVerbatim ==
    \A k \in DOMAIN results :
        (ChannelAxis(RawMeta(k)).has /\ IsStr(RawName(k))) =>
            /\ results[k].metadata.disp["name"] = RawName(k)
            /\ \A j \in DOMAIN MetaRefs(k) :
                    ExtraOf(MetaRefs(k)[j]).has =>
                        ExtraOf(MetaRefs(k)[j]).v.original.name = RawName(k)

\* The run returned a tuple for an image with several channels, a non-empty
\* string as name and an ExtraMetadata per channel
C3_Witness ==
    /\ status = "returned"
    /\ \E k \in DOMAIN results :
        /\ ChannelAxis(RawMeta(k)).has
        /\ IsStr(RawName(k)) /\ Truthy(RawName(k))
        /\ NChannels(k) >= 2
        /\ Len(MetaRefs(k)) = NChannels(k)
        /\ \A j \in DOMAIN MetaRefs(k) : ExtraOf(MetaRefs(k)[j]).has

\* Some descriptor leaves out the optional type or unit
OmitsOptional(md) ==
    \E k \in DOMAIN md.axes.v : ~md.axes.v[k].type.has \/ ~md.axes.v[k].unit.has

\* C7: a run aborts only on a node without axes list or with a descriptor
\* without name; a node with data whose descriptors all have a name, some
\* without type or unit, is emitted, its descriptors without type being Space
\* axes and no channel axis being detected from them.
C7_OnlySchemaErrorsAbort ==
    /\ status = "raised" => Malformed(orig[pos].metadata)
    /\ \A i \in 1..pos :
        (/\ HasData(orig[i])
         /\ ~Malformed(orig[i].metadata)
         /\ OmitsOptional(orig[i].metadata)) =>
            \E k \in DOMAIN results :
                /\ Src(k) = i
                /\ LET kept == NonChannel(RawMeta(k).axes.v)
                       axes == ExtraOf(MetaRefs(k)[1]).v.axes
                   IN  /\ Len(axes) = Len(kept)
                       /\ \A m \in DOMAIN kept :
                            ~kept[m].type.has => axes[m].kind = "space"
                /\ results[k].metadata.channel_axis.has =>
                        RawMeta(k).axes.v[results[k].metadata.channel_axis.v + 1].type
                            = Some("channel")

\* C8: for a node without channel axis, image or label, every display field
\* of the emitted mapping is scalar-valued, its `metadata` field is one
\* mapping, and when the raw name is the string s the emitted name is s and
\* the ExtraMetadata under the reserved key has original.name s.
C8_SingleChannelScalars ==
    \A k \in DOMAIN results :
        ~ChannelAxis(RawMeta(k)).has =>
            /\ \A x \in METADATA_KEYS :
                    results[k].metadata.disp[x].kind \in {"absent", "scalar", "dict"}
            /\ results[k].metadata.disp["metadata"].kind = "dict"
            /\ IsStr(RawName(k)) =>
                    /\ results[k].metadata.disp["name"] = RawName(k)
                    /\ ExtraOf(MetaRefs(k)[1]).has
                    /\ ExtraOf(MetaRefs(k)[1]).v.original.name = RawName(k)

\* C9: after a run every node's metadata mapping, the dict objects it names
\* included, equals what it was before the run.
C9_NodeMetadataReadOnly ==
    status = "returned" =>
        /\ \A i \in DOMAIN orig : nodes[i].metadata = orig[i].metadata
        /\ \A r \in DOMAIN InitHeap(orig) : heap[r] = InitHeap(orig)[r]

\* C10: for a node, image or label, with a channel axis and a `metadata` field
\* that is no list, reading the channel count never raises, and the number of
\* per-channel metadata entries, each with its ExtraMetadata, is the size of
\* the node's source data along the channel axis.
C10_ChannelCount ==
    /\ (status = "raised" /\ exc = "shape") =>
            orig[pos].metadata.disp["metadata"].kind = "dictlist"
    /\ \A k \in DOMAIN results :
        (/\ ChannelAxis(RawMeta(k)).has
         /\ RawMeta(k).disp["metadata"].kind \in {"absent", "dict"}) =>
            /\ Len(MetaRefs(k)) = NChannels(k)
            /\ \A j \in DOMAIN MetaRefs(k) : ExtraOf(MetaRefs(k)[j]).has

=============================================================================
